---- MODULE Spec2Model ----
(***************************************************************************)
(* Cache-aside consistency of the ad service: AdService (service.go)       *)
(* orchestrating Repository (repository.go, MySQL table "ads") and Cache   *)
(* (Redis, keys ad_<id>, TTL 5 minutes).  Every request runs on its own    *)
(* worker; a step of a worker is one blocking Store or Cache call together *)
(* with the local code that follows it up to the next call.  The clock     *)
(* counts minutes.                                                         *)
(***************************************************************************)
EXTENDS Integers, Sequences, FiniteSets, TLC

\* ---------------------------------------------------------------- bounds
MaxId == 2          \* rows the table may ever receive (auto-increment cap)
MaxOps == 3         \* requests started in one run
MaxTime == 7        \* last minute of the clock
MaxAttempts == 3    \* largest attempts retry is called with
IntBits == 5        \* width of Go's int, scaled down from 64
Workers == {"w1", "w2"}

\* ------------------------------------------------------ program constants
TTL == 5            \* 5*time.Minute, in minutes

Ids == 1..MaxId

\* Go's int: two's complement of IntBits bits
MaxInt == 2 ^ (IntBits - 1) - 1
MinInt == 0 - 2 ^ (IntBits - 1)
\* the value an int holds after an arithmetic result x
WrapInt(x) == ((x - MinInt) % (2 ^ IntBits)) + MinInt

\* type Ad struct; the zero value is what `var ad Ad` holds
ZeroAd == [ID |-> 0, Title |-> "", Description |-> "", Price |-> 0,
           CreatedAt |-> 0, IsActive |-> FALSE]
NoRow == ZeroAd

\* request bodies that pass the handler's validation (title and description
\* non-empty, price positive); ID and CreatedAt of a body are ignored by the code
Body(t, d, p, a) == [ZeroAd EXCEPT !.Title = t, !.Description = d, !.Price = p, !.IsActive = a]
ValidAds == {Body("Laptop", "x", 1200, TRUE), Body("Laptop v2", "y", 999, FALSE)}

\* mutant: the key of the next id
CacheKey_NextId(id) == <<"ad_", IF id = MaxId THEN 1 ELSE id + 1>>
\* mutant: the key without the id
CacheKey_NoId(id) == <<"ad_", 0>>
\* cacheKey := "ad_" + strconv.Itoa(id)
CacheKey(id) == <<"ad_", id>>
Keys == {CacheKey(i) : i \in Ids}

\* mutant: is_active is not serialised
Marshal_DropsIsActive(ad) == << <<"id", ad.ID>>, <<"title", ad.Title>>,
                  <<"description", ad.Description>>, <<"price", ad.Price>>,
                  <<"created_at", ad.CreatedAt>>, <<"is_active", FALSE>> >>
\* json.Marshal(ad): the object's members in declaration order
Marshal(ad) == << <<"id", ad.ID>>, <<"title", ad.Title>>,
                  <<"description", ad.Description>>, <<"price", ad.Price>>,
                  <<"created_at", ad.CreatedAt>>, <<"is_active", ad.IsActive>> >>

JSONKeys == <<"id", "title", "description", "price", "created_at", "is_active">>
WellFormed(s) == /\ Len(s) = Len(JSONKeys)
                 /\ \A i \in 1..Len(s) : s[i][1] = JSONKeys[i]
\* mutant: a text that does not parse decodes to the zero Ad without an error
Unmarshal_Lenient(s) ==
  IF WellFormed(s)
    THEN [err |-> FALSE,
          ad |-> [ID |-> s[1][2], Title |-> s[2][2], Description |-> s[3][2],
                  Price |-> s[4][2], CreatedAt |-> s[5][2], IsActive |-> s[6][2]]]
    ELSE [err |-> FALSE, ad |-> ZeroAd]
\* json.Unmarshal([]byte(cachedAd), &ad)
Unmarshal(s) ==
  IF WellFormed(s)
    THEN [err |-> FALSE,
          ad |-> [ID |-> s[1][2], Title |-> s[2][2], Description |-> s[3][2],
                  Price |-> s[4][2], CreatedAt |-> s[5][2], IsActive |-> s[6][2]]]
    ELSE [err |-> TRUE, ad |-> ZeroAd]

\* a key Redis does not hold; ver is the version of the row the value was read at
NoEntry == [val |-> <<>>, exp |-> 0, ver |-> 0]

VARIABLES
  store,    \* table ads: id -> row, NoRow where there is none
  nextId,   \* AUTO_INCREMENT counter of ads.id
  cache,    \* Redis: key -> [val, exp]
  now,      \* wall clock, minutes
  pc,       \* worker -> the call its request performs next
  req,      \* worker -> the request it serves
  res,      \* worker -> locals and result of that request
  ops,      \* requests started so far
  hist,     \* id -> the rows committed for id, oldest first, with commit times
  ackUpd,   \* id -> the newest Update of id that returned success
  ackDel,   \* the ids a Delete of which returned success
  created,  \* id -> the Ad the Create of id returned
  lastSet,  \* id -> version a finished Get left under ad_<id>, 0 once an Update or
            \* Delete of id has acted or the key is gone
  ctx,      \* worker -> whether the context of its request is live or cancelled
  boot      \* the run of retry(operation, attempts, delay) at startup

vars == <<store, nextId, cache, now, pc, req, res, ops, hist, ackUpd, ackDel, created,
          lastSet, ctx, boot>>

NoAck == [ver |-> 0, ad |-> ZeroAd]
NoReq == [op |-> "none", bad |-> FALSE, id |-> 0, ad |-> ZeroAd,
          page |-> 0, limit |-> 0, sortBy |-> "", order |-> "",
          ver0 |-> 0, floorUpd |-> NoAck, floorDel |-> {}, floorTTL |-> 0]
\* locals of a request: err is the error the Service returned once done
NoRes == [done |-> FALSE, err |-> "nil", ad |-> ZeroAd, ads |-> <<>>, id |-> 0,
          ver |-> 0, src |-> "none", matched |-> FALSE, calls |-> <<>>]

Call(name, out) == [call |-> name, out |-> out]
LastCall(r) == r.calls[Len(r.calls)]

Ver(id) == Len(hist[id])
Commit(id, row) == [hist EXCEPT ![id] = Append(@, [row |-> row, at |-> now])]


\* ------------------------------------------------------------------ Store
\* mutant: the price column is left out of the SET list
UpdateAdRow_KeepsPrice(row, ad) ==
  [row EXCEPT !.Title = ad.Title, !.Description = ad.Description,
              !.IsActive = IF ad.IsActive THEN ad.IsActive ELSE @]
\* mutant: id and created_at of the body are written too
UpdateAdRow_TakesBody(row, ad) ==
  [ad EXCEPT !.IsActive = IF ad.IsActive THEN ad.IsActive ELSE row.IsActive]
\* mutant: is_active is always in the SET list
UpdateAdRow_SetsIsActive(row, ad) ==
  [row EXCEPT !.Title = ad.Title, !.Description = ad.Description, !.Price = ad.Price,
              !.IsActive = ad.IsActive]
\* UPDATE ads SET title = ?, description = ?, price = ?[, is_active = ?] WHERE id = ?
UpdateAdRow(row, ad) ==
  [row EXCEPT !.Title = ad.Title, !.Description = ad.Description, !.Price = ad.Price,
              !.IsActive = IF ad.IsActive THEN ad.IsActive ELSE @]

\* result.RowsAffected() of the connection opened by Connect: the DSN sets only
\* parseTime=true, so MySQL counts the rows an UPDATE changed, not those it matched
RowsAffected(old, new) == IF old = NoRow \/ new = old THEN 0 ELSE 1

\* mutant: is_active is left out of the INSERT and takes the column default
InsertRow_NoIsActive(id, ad) ==
  [ID |-> id, Title |-> ad.Title, Description |-> ad.Description, Price |-> ad.Price,
   CreatedAt |-> now, IsActive |-> FALSE]
\* INSERT INTO ads (title, description, price, is_active) VALUES (?, ?, ?, ?)
InsertRow(id, ad) ==
  [ID |-> id, Title |-> ad.Title, Description |-> ad.Description, Price |-> ad.Price,
   CreatedAt |-> now, IsActive |-> ad.IsActive]

\* mutant: a soft delete that only clears is_active
DeleteRow_Soft(id) == [store EXCEPT ![id].IsActive = FALSE]
\* DELETE FROM ads WHERE id = ?
DeleteRow(id) == [store EXCEPT ![id] = NoRow]

\* the columns and directions the handler lets through to ORDER BY
ValidSortFields == {"id", "title", "price", "created_at", "is_active"}
Orders == {"asc", "desc"}
\* the List requests of the concurrent runs: <<page, limit, sort_by, order>>
ListQueries == {<<1, 10, "price", "desc">>, <<1, 1, "title", "asc">>,
                <<2, 1, "id", "asc">>, <<1, 2, "created_at", "asc">>,
                <<1, 2, "is_active", "desc">>}

\* collation rank of the titles in use
Collate(t) == IF t = "" THEN 0 ELSE IF t = "Laptop" THEN 1 ELSE 2
SortKey(row, sortBy) ==
  CASE sortBy = "id" -> row.ID
    [] sortBy = "title" -> Collate(row.Title)
    [] sortBy = "price" -> row.Price
    [] sortBy = "created_at" -> row.CreatedAt
    [] sortBy = "is_active" -> IF row.IsActive THEN 1 ELSE 0

Rows == {store[i] : i \in {j \in Ids : store[j] # NoRow}}
Perms(S) == {s \in [1..Cardinality(S) -> S] :
               \A a, b \in 1..Cardinality(S) : a # b => s[a] # s[b]}
Ordered(s, sortBy, order) ==
  \A i \in 1..(Len(s) - 1) :
    IF order = "asc" THEN SortKey(s[i], sortBy) <= SortKey(s[i + 1], sortBy)
                     ELSE SortKey(s[i], sortBy) >= SortKey(s[i + 1], sortBy)
Min(a, b) == IF a <= b THEN a ELSE b
\* mutant: the query has no OFFSET
QueryAds_NoOffset(sortBy, order, limit, offset) ==
  {SubSeq(s, 1, Min(limit, Len(s))) :
     s \in {p \in Perms(Rows) : Ordered(p, sortBy, order)}}
\* SELECT ... FROM ads ORDER BY sortBy order LIMIT limit OFFSET offset; rows with
\* equal keys come in an order of the server's choosing
QueryAds(sortBy, order, limit, offset) ==
  {SubSeq(s, offset + 1, Min(offset + limit, Len(s))) :
     s \in {p \in Perms(Rows) : Ordered(p, sortBy, order)}}

\* ------------------------------------------------------------------ Cache
\* c.Client.Get: the value, or "" when Redis holds no live key (redis.Nil)
RedisGet(key) == IF cache[key].exp > now THEN cache[key].val ELSE <<>>
\* mutant: the key is given twice the expiration
RedisSet_DoubleTTL(key, value, expiration, ver) ==
  [cache EXCEPT ![key] = [val |-> value, exp |-> now + 2 * expiration, ver |-> ver]]
\* mutant: the key is written already expired
RedisSet_Expired(key, value, expiration, ver) ==
  [cache EXCEPT ![key] = [val |-> value, exp |-> now, ver |-> ver]]
\* c.Client.Set(ctx, key, value, expiration)
RedisSet(key, value, expiration, ver) ==
  [cache EXCEPT ![key] = [val |-> value, exp |-> now + expiration, ver |-> ver]]
\* mutant: every key is dropped (FLUSHDB)
RedisDel_FlushAll(key) == [k \in Keys |-> NoEntry]
\* mutant: the key is left in place
RedisDel_Noop(key) == cache
\* c.Client.Del(ctx, key)
RedisDel(key) == [cache EXCEPT ![key] = NoEntry]

\* ------------------------------------------------- decisions of AdService
\* mutant: the invalidation runs whatever the Repository returned
Invalidates_Always(err) == TRUE
\* UpdateAd/DeleteAd: `if err != nil { ... return }` before the invalidation
Invalidates(err) == err = "nil"
\* mutant: the error of adCache.Delete is returned
AfterInvalidate_Surfaces(delFailed) == IF delFailed THEN "error" ELSE "nil"
\* UpdateAd/DeleteAd: adCache.Delete(cacheKey, ctx); return nil
AfterInvalidate(delFailed) == "nil"
\* mutant: the error of adCache.Set is returned
AfterPopulate_Surfaces(setFailed) == IF setFailed THEN "error" ELSE "nil"
\* GetAdByID: adCache.Set(...) inside `if err == nil`; return ad, nil
AfterPopulate(setFailed) == "nil"
\* mutant: zero affected rows count as success
RepoErr_ZeroRowsOk(fail, n) == IF fail THEN "error" ELSE "nil"
\* mutant: the population runs whatever the Repository returned
Populates_Always(err) == TRUE
\* GetAdByID: `if err != nil { ... return nil, err }` before the population
Populates(err) == err = "nil"
\* the error Repository.UpdateAd/DeleteAd returns
RepoErr(fail, n) == IF fail THEN "error" ELSE IF n = 0 THEN "ErrAdNotFound" ELSE "nil"

\* ---------------------------------------------------------------- helpers
\* no result is waiting to be written out.  Respond touches only its worker's
\* locals, which no other step reads, so it commutes with every other step and
\* is taken first: the runs left out differ only in when a response is written
Quiet == \A v \in Workers : ~res[v].done

Begin(w, r) ==
  /\ pc[w] = "idle"
  /\ Quiet
  /\ ops < MaxOps
  /\ ops' = ops + 1
  /\ req' = [req EXCEPT ![w] = r]

Finish(w, r) ==
  /\ pc' = [pc EXCEPT ![w] = "idle"]
  /\ res' = [res EXCEPT ![w] = [r EXCEPT !.done = TRUE]]

\* newest version of id committed more than TTL ago
FloorTTL(id) ==
  LET old == {v \in 1..Ver(id) : hist[id][v].at + TTL < now}
  IN IF old = {} THEN 0 ELSE CHOOSE v \in old : \A u \in old : u <= v

\* the table as the migration leaves it, or as one earlier Create left it
SeedAd == Body("Laptop", "x", 1200, TRUE)
SeedRow == [SeedAd EXCEPT !.ID = 1, !.CreatedAt = 1]
\* NewCache has returned: the first Ping went through
Booted == [pc |-> "done", attempts |-> 3, delay |-> 2, i |-> 0, log |-> <<<<"op", "nil">>>>,
           ret |-> "nil"]

\* the table, the cache and the workers when the server starts to listen
Serving ==
  /\ \E seeded \in BOOLEAN :
       /\ store = [i \in Ids |-> IF seeded /\ i = 1 THEN SeedRow ELSE NoRow]
       /\ nextId = IF seeded THEN 2 ELSE 1
       /\ created = [i \in Ids |-> IF seeded /\ i = 1 THEN SeedRow ELSE ZeroAd]
       /\ hist = [i \in Ids |-> IF seeded /\ i = 1
                                  THEN <<[row |-> SeedRow, at |-> 1]>> ELSE <<>>]
  /\ cache = [k \in Keys |-> NoEntry]
  /\ now = 1
  /\ pc = [w \in Workers |-> "idle"]
  /\ req = [w \in Workers |-> NoReq]
  /\ res = [w \in Workers |-> NoRes]
  /\ ops = 0
  /\ ackUpd = [i \in Ids |-> NoAck]
  /\ ackDel = {}
  /\ lastSet = [i \in Ids |-> 0]
  /\ ctx = [w \in Workers |-> "live"]

Init == Serving /\ boot = Booted

\* ----------------------------------------------------- AdService.GetAdByID
\* service.go 70-84: the cache lookup; a decodable hit returns at once
GetAdByID_CacheGet(w, id) ==
  \E fail \in BOOLEAN :
    LET key == CacheKey(id)
        cachedAd == IF fail THEN <<>> ELSE RedisGet(key)
        u == Unmarshal(cachedAd)
        out == IF fail THEN "err" ELSE IF cachedAd = <<>> THEN "miss" ELSE "hit"
        r == [NoRes EXCEPT !.calls = <<Call("cache.get", out)>>]
    IN /\ Begin(w, [NoReq EXCEPT !.op = "Get", !.id = id,
                                  !.ver0 = Ver(id),
                                  !.floorUpd = ackUpd[id], !.floorDel = ackDel,
                                  !.floorTTL = FloorTTL(id)])
       /\ IF ~fail /\ cachedAd # <<>> /\ ~u.err
            THEN Finish(w, [r EXCEPT !.ad = u.ad, !.ver = cache[key].ver, !.src = "cache"])
            ELSE /\ pc' = [pc EXCEPT ![w] = "GetRepo"]
                 /\ res' = [res EXCEPT ![w] = r]
       /\ UNCHANGED <<store, nextId, cache, now, hist, ackUpd, ackDel, created, lastSet, ctx, boot>>

\* service.go 87-96 with Repository.GetAdByID
GetAdByID_Repo(w) ==
  /\ pc[w] = "GetRepo"
  /\ Quiet
  /\ \E fail \in BOOLEAN :
       LET id == req[w].id
           row == store[id]
           out == IF fail THEN "err" ELSE IF row = NoRow THEN "norows" ELSE "ok"
           r == [res[w] EXCEPT !.calls = Append(@, Call("store.select", out))]
           err == IF fail THEN "error" ELSE IF row = NoRow THEN "sql.ErrNoRows" ELSE "nil"
       IN IF Populates(err)
            THEN /\ pc' = [pc EXCEPT ![w] = "GetSet"]
                 /\ res' = [res EXCEPT ![w] = [r EXCEPT !.ad = row, !.ver = Ver(id),
                                                        !.src = "store"]]
            ELSE Finish(w, [r EXCEPT !.err = err])
  /\ UNCHANGED <<store, nextId, cache, now, req, ops, hist, ackUpd, ackDel, created, lastSet, ctx, boot>>

\* service.go 98-109: best-effort population, the error of Set is dropped
GetAdByID_CacheSet(w) ==
  /\ pc[w] = "GetSet"
  /\ Quiet
  /\ \E fail \in BOOLEAN :
       LET key == CacheKey(req[w].id)
           adBytes == Marshal(res[w].ad)
           err == AfterPopulate(fail)
       IN /\ cache' = IF fail THEN cache ELSE RedisSet(key, adBytes, TTL, res[w].ver)
          /\ Finish(w, [res[w] EXCEPT !.calls = Append(@,
                           Call("cache.set", IF fail THEN "err" ELSE "ok")),
                                      !.err = err,
                                      !.ad = IF err = "nil" THEN @ ELSE ZeroAd])
  /\ lastSet' = IF cache' = cache THEN lastSet
                ELSE [lastSet EXCEPT ![req[w].id] = res[w].ver]
  /\ UNCHANGED <<store, nextId, now, req, ops, hist, ackUpd, ackDel, created, ctx, boot>>

\* ------------------------------------------------------ AdService.UpdateAd
\* service.go 118-127 with Repository.UpdateAd
UpdateAd_Repo(w, id, ad) ==
  \E fail \in BOOLEAN :
    LET old == store[id]
        new == IF old = NoRow THEN NoRow ELSE UpdateAdRow(old, ad)
        n == RowsAffected(old, new)
        out == IF fail THEN "err" ELSE IF n = 0 THEN "norows" ELSE "ok"
        r == [NoRes EXCEPT !.calls = <<Call("store.update", out)>>,
                           !.matched = ~fail /\ old # NoRow]
        err == RepoErr(fail, n)
    IN /\ Begin(w, [NoReq EXCEPT !.op = "Update", !.id = id, !.ad = ad])
       /\ IF ~fail /\ n > 0
            THEN store' = [store EXCEPT ![id] = new] /\ hist' = Commit(id, new)
            ELSE UNCHANGED <<store, hist>>
       /\ IF Invalidates(err)
            THEN /\ pc' = [pc EXCEPT ![w] = "UpdDel"]
                 /\ res' = [res EXCEPT ![w] = [r EXCEPT !.ver = Ver(id) + 1]]
            ELSE Finish(w, [r EXCEPT !.err = err])
       /\ lastSet' = IF store' = store THEN lastSet ELSE [lastSet EXCEPT ![id] = 0]
       /\ UNCHANGED <<nextId, cache, now, ackUpd, ackDel, created, ctx, boot>>

\* service.go 129-134: invalidation, the error of Delete is dropped
UpdateAd_CacheDelete(w) ==
  /\ pc[w] = "UpdDel"
  /\ Quiet
  /\ \E fail \in BOOLEAN :
       LET id == req[w].id
           err == AfterInvalidate(fail)
       IN /\ cache' = IF fail THEN cache ELSE RedisDel(CacheKey(id))
          /\ Finish(w, [res[w] EXCEPT !.calls = Append(@,
                           Call("cache.del", IF fail THEN "err" ELSE "ok")),
                                      !.err = err])
          /\ ackUpd' = IF err = "nil" /\ res[w].ver > ackUpd[id].ver
                         THEN [ackUpd EXCEPT ![id] = [ver |-> res[w].ver, ad |-> req[w].ad]]
                         ELSE ackUpd
  /\ lastSet' = [lastSet EXCEPT ![req[w].id] = 0]
  /\ UNCHANGED <<store, nextId, now, req, ops, hist, ackDel, created, ctx, boot>>

\* ------------------------------------------------------ AdService.DeleteAd
\* service.go 143-152 with Repository.DeleteAd: DELETE FROM ads WHERE id = ?
DeleteAd_Repo(w, id) ==
  \E fail \in BOOLEAN :
    LET old == store[id]
        n == IF old = NoRow THEN 0 ELSE 1
        out == IF fail THEN "err" ELSE IF n = 0 THEN "norows" ELSE "ok"
        r == [NoRes EXCEPT !.calls = <<Call("store.delete", out)>>,
                           !.matched = ~fail /\ old # NoRow]
        err == RepoErr(fail, n)
    IN /\ Begin(w, [NoReq EXCEPT !.op = "Delete", !.id = id])
       /\ IF ~fail /\ n > 0
            THEN store' = DeleteRow(id) /\ hist' = Commit(id, store'[id])
            ELSE UNCHANGED <<store, hist>>
       /\ IF Invalidates(err)
            THEN /\ pc' = [pc EXCEPT ![w] = "DelDel"]
                 /\ res' = [res EXCEPT ![w] = [r EXCEPT !.ver = Ver(id) + 1]]
            ELSE Finish(w, [r EXCEPT !.err = err])
       /\ lastSet' = IF store' = store THEN lastSet ELSE [lastSet EXCEPT ![id] = 0]
       /\ UNCHANGED <<nextId, cache, now, ackUpd, ackDel, created, ctx, boot>>

\* service.go 154-159
DeleteAd_CacheDelete(w) ==
  /\ pc[w] = "DelDel"
  /\ Quiet
  /\ \E fail \in BOOLEAN :
       LET id == req[w].id
           err == AfterInvalidate(fail)
       IN /\ cache' = IF fail THEN cache ELSE RedisDel(CacheKey(id))
          /\ Finish(w, [res[w] EXCEPT !.calls = Append(@,
                           Call("cache.del", IF fail THEN "err" ELSE "ok")),
                                      !.err = err])
          /\ ackDel' = IF err = "nil" THEN ackDel \cup {id} ELSE ackDel
  /\ lastSet' = [lastSet EXCEPT ![req[w].id] = 0]
  /\ UNCHANGED <<store, nextId, now, req, ops, hist, ackUpd, created, ctx, boot>>

\* --------------------------------------------------------- AdService.AddAd
\* ads.id is an AUTO_INCREMENT primary key: the id the next INSERT is given
AutoIncrement == nextId

\* mutant: the id is taken from result.RowsAffected()
AddAd_Insert_RowsAffected(w, ad) ==
  /\ nextId <= MaxId
  /\ \E fail \in BOOLEAN :
       LET id == AutoIncrement
           row == InsertRow(id, ad)
           r == [NoRes EXCEPT !.calls = <<Call("store.insert", IF fail THEN "err" ELSE "ok")>>]
       IN /\ Begin(w, [NoReq EXCEPT !.op = "Create", !.ad = ad])
          /\ IF fail
               THEN Finish(w, [r EXCEPT !.err = "error"]) /\ UNCHANGED <<store, nextId, hist>>
               ELSE /\ store' = [store EXCEPT ![id] = row]
                    /\ nextId' = nextId + 1
                    /\ hist' = Commit(id, row)
                    /\ pc' = [pc EXCEPT ![w] = "AddSelect"]
                    /\ res' = [res EXCEPT ![w] = [r EXCEPT !.id = 1]]
  /\ UNCHANGED <<cache, now, ackUpd, ackDel, created, lastSet, ctx, boot>>

\* repository.go 41-56: the INSERT and LastInsertId
AddAd_Insert(w, ad) ==
  /\ nextId <= MaxId
  /\ \E fail \in BOOLEAN :
       LET id == AutoIncrement
           row == InsertRow(id, ad)
           r == [NoRes EXCEPT !.calls = <<Call("store.insert", IF fail THEN "err" ELSE "ok")>>]
       IN /\ Begin(w, [NoReq EXCEPT !.op = "Create", !.ad = ad])
          /\ IF fail
               THEN Finish(w, [r EXCEPT !.err = "error"]) /\ UNCHANGED <<store, nextId, hist>>
               ELSE /\ store' = [store EXCEPT ![id] = row]
                    /\ nextId' = nextId + 1
                    /\ hist' = Commit(id, row)
                    /\ pc' = [pc EXCEPT ![w] = "AddSelect"]
                    /\ res' = [res EXCEPT ![w] = [r EXCEPT !.id = id]]
  /\ UNCHANGED <<cache, now, ackUpd, ackDel, created, lastSet, ctx, boot>>

\* mutant: the Create writes the new row under its key
AddAd_SelectCreatedAt_Caches(w) ==
  /\ pc[w] = "AddSelect"
  /\ Quiet
  /\ \E fail \in BOOLEAN :
       LET id == res[w].id
           row == store[id]
           out == IF fail THEN "err" ELSE IF row = NoRow THEN "norows" ELSE "ok"
           r == [res[w] EXCEPT !.calls = Append(@, Call("store.select", out))]
           ad == [req[w].ad EXCEPT !.ID = id, !.CreatedAt = row.CreatedAt]
       IN IF fail \/ row = NoRow
            THEN Finish(w, [r EXCEPT !.err = "error"]) /\ UNCHANGED created
            ELSE /\ Finish(w, [r EXCEPT !.ad = ad, !.ver = 1, !.src = "store"])
                 /\ created' = [created EXCEPT ![id] = ad]
  /\ cache' = RedisSet(CacheKey(res[w].id), Marshal(store[res[w].id]), TTL, 1)
  /\ UNCHANGED <<store, nextId, now, req, ops, hist, ackUpd, ackDel, lastSet, ctx, boot>>

\* repository.go 58-74: SELECT created_at FROM ads WHERE id = ?
AddAd_SelectCreatedAt(w) ==
  /\ pc[w] = "AddSelect"
  /\ Quiet
  /\ \E fail \in BOOLEAN :
       LET id == res[w].id
           row == store[id]
           out == IF fail THEN "err" ELSE IF row = NoRow THEN "norows" ELSE "ok"
           r == [res[w] EXCEPT !.calls = Append(@, Call("store.select", out))]
           ad == [req[w].ad EXCEPT !.ID = id, !.CreatedAt = row.CreatedAt]
       IN IF fail \/ row = NoRow
            THEN Finish(w, [r EXCEPT !.err = "error"]) /\ UNCHANGED created
            ELSE /\ Finish(w, [r EXCEPT !.ad = ad, !.ver = 1, !.src = "store"])
                 /\ created' = [created EXCEPT ![id] = ad]
  /\ UNCHANGED <<store, nextId, cache, now, req, ops, hist, ackUpd, ackDel, lastSet, ctx, boot>>

\* ----------------------------------------------------- AdService.GetAllAds
\* offset := (page - 1) * limit, in int arithmetic
Offset(page, limit) == WrapInt((page - 1) * limit)

\* service.go 47-61 with Repository.GetAllAds; the server rejects a negative OFFSET
GetAllAds(w, page, limit, sortBy, order) ==
  /\ \E failed \in BOOLEAN :
       LET offset == Offset(page, limit)
           fail == failed \/ offset < 0
           r == [NoRes EXCEPT !.calls = <<Call("store.query", IF fail THEN "err" ELSE "ok")>>]
       IN /\ Begin(w, [NoReq EXCEPT !.op = "List", !.page = page, !.limit = limit,
                                     !.sortBy = sortBy, !.order = order,
                                     !.floorDel = ackDel])
          /\ IF fail
               THEN Finish(w, [r EXCEPT !.err = "error"])
               ELSE \E ads \in QueryAds(sortBy, order, limit, offset) :
                      Finish(w, [r EXCEPT !.ads = ads, !.src = "store"])
  /\ UNCHANGED <<store, nextId, cache, now, hist, ackUpd, ackDel, created, lastSet, ctx, boot>>

\* the handler writes the response (c.JSON) and the worker is free again
Respond(w) ==
  /\ pc[w] = "idle"
  /\ res[w].done
  /\ req' = [req EXCEPT ![w] = NoReq]
  /\ res' = [res EXCEPT ![w] = NoRes]
  /\ ctx' = [ctx EXCEPT ![w] = "live"]
  /\ UNCHANGED <<store, nextId, cache, now, pc, ops, hist, ackUpd, ackDel, created, lastSet,
                 boot>>

\* ----------------------------------------------------------------- expiry
\* Redis drops a key whose TTL has run out; without a clock, at any moment
Expire(key) ==
  /\ cache[key] # NoEntry
  /\ Quiet
  /\ cache' = [cache EXCEPT ![key] = NoEntry]
  /\ lastSet' = [i \in Ids |-> IF CacheKey(i) = key THEN 0 ELSE lastSet[i]]
  /\ UNCHANGED <<store, nextId, now, pc, req, res, ops, hist, ackUpd, ackDel, created, ctx, boot>>

\* a minute passes; Redis drops the keys whose expiry has been reached
Tick ==
  /\ now < MaxTime
  /\ Quiet
  /\ now' = now + 1
  /\ cache' = [k \in Keys |-> IF cache[k].exp > now + 1 THEN cache[k] ELSE NoEntry]
  /\ lastSet' = [i \in Ids |-> IF cache'[CacheKey(i)] = NoEntry THEN 0 ELSE lastSet[i]]
  /\ UNCHANGED <<store, nextId, pc, req, res, ops, hist, ackUpd, ackDel, created, ctx, boot>>

Next ==
  \/ \E w \in Workers, id \in Ids : GetAdByID_CacheGet(w, id)
  \/ \E w \in Workers : GetAdByID_Repo(w)
  \/ \E w \in Workers : GetAdByID_CacheSet(w)
  \/ \E w \in Workers, id \in Ids, ad \in ValidAds : UpdateAd_Repo(w, id, ad)
  \/ \E w \in Workers : UpdateAd_CacheDelete(w)
  \/ \E w \in Workers, id \in Ids : DeleteAd_Repo(w, id)
  \/ \E w \in Workers : DeleteAd_CacheDelete(w)
  \/ \E w \in Workers, ad \in ValidAds : AddAd_Insert(w, ad)
  \/ \E w \in Workers : AddAd_SelectCreatedAt(w)
  \/ \E w \in Workers, q \in ListQueries : GetAllAds(w, q[1], q[2], q[3], q[4])
  \/ \E w \in Workers : Respond(w)
  \/ \E k \in Keys : Expire(k)

\* requests in any interleaving, Store and Cache calls failing at will, keys
\* expiring at will
Spec == Init /\ [][Next]_vars

\* Get, Update and Delete of the ids assigned so far, on the table one Create
\* has filled, under the clock: keys expire when their TTL has run out and at no
\* other time
InitT == Init /\ nextId = 2
Assigned == 1..(nextId - 1)
NextT ==
  \/ \E w \in Workers, id \in Assigned : GetAdByID_CacheGet(w, id)
  \/ \E w \in Workers : GetAdByID_Repo(w)
  \/ \E w \in Workers : GetAdByID_CacheSet(w)
  \/ \E w \in Workers, id \in Assigned, ad \in ValidAds : UpdateAd_Repo(w, id, ad)
  \/ \E w \in Workers : UpdateAd_CacheDelete(w)
  \/ \E w \in Workers, id \in Assigned : DeleteAd_Repo(w, id)
  \/ \E w \in Workers : DeleteAd_CacheDelete(w)
  \/ \E w \in Workers : Respond(w)
  \/ Tick
SpecT == InitT /\ [][NextT]_vars

\* ---------------------------------------------------------------- Handler
\* a URL or query parameter is the sequence of its characters
Digits == {"0", "1", "2", "3", "4", "5", "6", "7", "8", "9"}
DigitVal(c) ==
  CASE c = "0" -> 0 [] c = "1" -> 1 [] c = "2" -> 2 [] c = "3" -> 3 [] c = "4" -> 4
    [] c = "5" -> 5 [] c = "6" -> 6 [] c = "7" -> 7 [] c = "8" -> 8 [] c = "9" -> 9
RECURSIVE Decimal(_)
Decimal(s) == IF s = <<>> THEN 0
              ELSE 10 * Decimal(SubSeq(s, 1, Len(s) - 1)) + DigitVal(s[Len(s)])
\* strconv.Atoi: an optional sign and at least one digit, nothing else
Atoi(s) ==
  LET signed == s # <<>> /\ s[1] \in {"+", "-"}
      body == IF signed THEN Tail(s) ELSE s
  IN IF body = <<>> \/ \E i \in 1..Len(body) : body[i] \notin Digits
       THEN [err |-> TRUE, n |-> 0]
       ELSE LET n == IF signed /\ s[1] = "-" THEN 0 - Decimal(body) ELSE Decimal(body)
            IN IF n > MaxInt \/ n < MinInt THEN [err |-> TRUE, n |-> 0]  \* ErrRange
                                           ELSE [err |-> FALSE, n |-> n]
\* strconv.Itoa of a non-negative int
RECURSIVE Itoa(_)
Itoa(n) == IF n < 10 THEN <<CHOOSE c \in Digits : DigitVal(c) = n>>
           ELSE Itoa(n \div 10) \o <<CHOOSE c \in Digits : DigitVal(c) = n % 10>>

\* a query parameter the URL may lack: a number (page, limit) or a name
Absent == [present |-> FALSE, val |-> <<>>]
Unnamed == [present |-> FALSE, val |-> ""]
Param(v) == [present |-> TRUE, val |-> v]
\* c.DefaultQuery(key, defaultValue)
DefaultQuery(q, defaultValue) == IF q.present THEN q.val ELSE defaultValue

\* a request body: the members of its JSON object, or text that is no JSON
NoJSON == [malformed |-> TRUE, members |-> <<>>]
JSON(members) == [malformed |-> FALSE, members |-> members]
RECURSIVE Decode(_, _)
Decode(members, ad) ==
  IF members = <<>> THEN ad
  ELSE LET m == Head(members)
           next == CASE m[1] = "id" -> [ad EXCEPT !.ID = m[2]]
                     [] m[1] = "title" -> [ad EXCEPT !.Title = m[2]]
                     [] m[1] = "description" -> [ad EXCEPT !.Description = m[2]]
                     [] m[1] = "price" -> [ad EXCEPT !.Price = m[2]]
                     [] m[1] = "created_at" -> [ad EXCEPT !.CreatedAt = m[2]]
                     [] m[1] = "is_active" -> [ad EXCEPT !.IsActive = m[2]]
                     [] OTHER -> ad
       IN Decode(Tail(members), next)
\* c.ShouldBindJSON(&ad): members the body lacks keep the zero value
ShouldBindJSON(body) ==
  IF body.malformed THEN [err |-> TRUE, ad |-> ZeroAd]
                    ELSE [err |-> FALSE, ad |-> Decode(body.members, ZeroAd)]

\* `if err != nil || id <= 0` fails
ValidID(p) == ~p.err /\ p.n > 0
\* mutant: the title is not looked at
ValidBody_AnyTitle(b) == ~b.err /\ b.ad.Description # "" /\ b.ad.Price > 0
\* mutant: the price is not looked at
ValidBody_AnyPrice(b) == ~b.err /\ b.ad.Title # "" /\ b.ad.Description # ""
\* the bind succeeded, title and description are non-empty, price is positive
ValidBody(b) == ~b.err /\ b.ad.Title # "" /\ b.ad.Description # "" /\ b.ad.Price > 0
\* page and limit of GetAllAds: `if err != nil || page <= 0` fails
ValidCount(p) == ~p.err /\ p.n > 0

\* mutant: sql.ErrNoRows is not told apart from other errors
HandlerStatus_NoRowsIs500(op, err) ==
  IF err = "nil" THEN IF op = "Create" THEN 201 ELSE 200
  ELSE IF op \in {"Update", "Delete"} /\ err = "ErrAdNotFound" THEN 404
  ELSE 500
\* the status the handler of op answers with when the Service returned err
HandlerStatus(op, err) ==
  IF err = "nil" THEN IF op = "Create" THEN 201 ELSE 200
  ELSE IF op = "Get" /\ err = "sql.ErrNoRows" THEN 404
  ELSE IF op \in {"Update", "Delete"} /\ err = "ErrAdNotFound" THEN 404
  ELSE 500
\* the status of the response worker w is about to write
StatusCode(w) ==
  IF req[w].bad THEN 400 ELSE HandlerStatus(req[w].op, res[w].err)

\* errors the driver of the Store may hand up; "error" stands for them in the runs
StoreErrors == {"error", "dial tcp 10.0.0.5:3306: connect: connection refused",
                "Error 1146: Table 'ads.ads' doesn't exist",
                "could not insert ad: Error 1406: Data too long for column 'title'"}
\* mutant: the 500 body carries err.Error()
ErrorBody_EchoesError(op, err) ==
  IF HandlerStatus(op, err) = 404 THEN "Ad not found" ELSE err
\* gin.H{"error": ...} of the response the handler of op writes for err # nil
ErrorBody(op, err) ==
  IF HandlerStatus(op, err) = 404 THEN "Ad not found"
  ELSE IF op = "Get" THEN "Failed to fetch ad by ID"
  ELSE IF op = "Create" THEN "Failed to add ad"
  ELSE IF op = "List" THEN "Failed to fetch ads"
  ELSE IF op = "Update" THEN "Failed to update ad"
  ELSE "Failed to delete ad"

\* the handler answers 400 and returns: the Service is not called
BadRequest(w, op) ==
  /\ Begin(w, [NoReq EXCEPT !.op = op, !.bad = TRUE])
  /\ Finish(w, NoRes)
  /\ UNCHANGED <<store, nextId, cache, now, hist, ackUpd, ackDel, created, lastSet, ctx, boot>>

Handler_GetAdByID(w, idParam) ==
  LET p == Atoi(idParam)
  IN IF ValidID(p) THEN GetAdByID_CacheGet(w, p.n) ELSE BadRequest(w, "Get")

Handler_AddAd(w, body) ==
  LET b == ShouldBindJSON(body)
  IN IF ValidBody(b) THEN AddAd_Insert(w, b.ad) ELSE BadRequest(w, "Create")

Handler_GetAllAds(w, pageQ, limitQ, sortQ, orderQ) ==
  LET page == Atoi(DefaultQuery(pageQ, <<"1">>))
      limit == Atoi(DefaultQuery(limitQ, <<"1", "0">>))
      sortBy == DefaultQuery(sortQ, "created_at")
      order == DefaultQuery(orderQ, "asc")
  IN IF ValidCount(page) /\ ValidCount(limit) /\ sortBy \in ValidSortFields
          /\ order \in Orders
       THEN GetAllAds(w, page.n, limit.n, sortBy, order)
       ELSE BadRequest(w, "List")

Handler_UpdateAd(w, idParam, body) ==
  LET p == Atoi(idParam)
      b == ShouldBindJSON(body)
  IN IF ValidID(p) /\ ValidBody(b) THEN UpdateAd_Repo(w, p.n, b.ad)
                                    ELSE BadRequest(w, "Update")

Handler_DeleteAd(w, idParam) ==
  LET p == Atoi(idParam)
  IN IF ValidID(p) THEN DeleteAd_Repo(w, p.n) ELSE BadRequest(w, "Delete")

\* the requests of the HTTP runs
IdParams == {Itoa(i) : i \in Ids} \cup {<<"+", "1">>, <<"0">>, <<"-", "1">>, <<"a">>, <<"1", "a">>}
Bodies ==
  {JSON(<< <<"title", "Laptop">>, <<"description", "x">>, <<"price", 1200>>,
           <<"is_active", TRUE>> >>),
   JSON(<< <<"id", 2>>, <<"title", "Laptop v2">>, <<"description", "y">>,
           <<"price", 999>>, <<"created_at", 3>> >>),
   JSON(<< <<"title", "">>, <<"description", "x">>, <<"price", 1200>> >>),
   JSON(<< <<"title", "Laptop">>, <<"price", 1200>> >>),
   JSON(<< <<"title", "Laptop">>, <<"description", "x">>, <<"price", 0>> >>),
   JSON(<< <<"title", "Laptop">>, <<"description", "x">>, <<"price", 0 - 5>> >>),
   NoJSON}
Queries ==
  {<<Absent, Absent, Unnamed, Unnamed>>,
   <<Param(<<"1">>), Param(<<"1", "0">>), Param("price"), Param("desc")>>,
   <<Param(<<"2">>), Param(<<"1">>), Param("id"), Unnamed>>,
   <<Param(<<"1">>), Param(<<"2">>), Param("title"), Param("asc")>>,
   <<Param(<<"2">>), Param(<<"2">>), Param("is_active"), Param("desc")>>,
   <<Param(<<"0">>), Absent, Unnamed, Unnamed>>,
   <<Param(<<"x">>), Absent, Unnamed, Unnamed>>,
   <<Absent, Param(<<"0">>), Unnamed, Unnamed>>,
   <<Absent, Param(<<"-", "1">>), Unnamed, Unnamed>>,
   <<Absent, Absent, Param("name"), Unnamed>>,
   <<Absent, Absent, Unnamed, Param("up")>>,
   <<Absent, Absent, Param("price; DROP TABLE ads"), Param("ASC")>>}

\* the HTTP runs serve their requests on one worker
Servers == {"w1"}
NextH ==
  \/ \E w \in Servers, idParam \in IdParams : Handler_GetAdByID(w, idParam)
  \/ \E w \in Servers : GetAdByID_Repo(w)
  \/ \E w \in Servers : GetAdByID_CacheSet(w)
  \/ \E w \in Servers, idParam \in IdParams, body \in Bodies :
        Handler_UpdateAd(w, idParam, body)
  \/ \E w \in Servers : UpdateAd_CacheDelete(w)
  \/ \E w \in Servers, idParam \in IdParams : Handler_DeleteAd(w, idParam)
  \/ \E w \in Servers : DeleteAd_CacheDelete(w)
  \/ \E w \in Servers, body \in Bodies : Handler_AddAd(w, body)
  \/ \E w \in Servers : AddAd_SelectCreatedAt(w)
  \/ \E w \in Servers, q \in Queries : Handler_GetAllAds(w, q[1], q[2], q[3], q[4])
  \/ \E w \in Servers : Respond(w)
  \/ \E k \in Keys : Expire(k)

\* HTTP requests, well-formed or not, served one after the other
SpecH == Init /\ [][NextH]_vars

\* ------------------------------------------------------------------ retry
\* what operation() may return: nil or an error
Outcomes == {"nil", "e1", "e2"}
\* the delays retry is called with, in seconds
Delays == {1, 2}
RetryFrame ==
  UNCHANGED <<store, nextId, cache, now, pc, req, res, ops, hist, ackUpd, ackDel, created,
              lastSet, ctx>>
\* mutant: no attempt is taken for the last one
LastAttempt_Never(i, attempts) == FALSE
\* `if i == attempts-1`
LastAttempt(i, attempts) == i = attempts - 1

\* part_001 172-180: the loop test holds and operation() is called; on an error
\* the last attempt returns it, any other attempt goes to sleep; success breaks
\* out of the loop to `return nil`
Retry_Operation ==
  /\ boot.pc = "loop"
  /\ boot.i < boot.attempts
  /\ \E err \in Outcomes :
       LET b == [boot EXCEPT !.log = Append(@, <<"op", err>>)]
       IN boot' = IF err = "nil" THEN [b EXCEPT !.pc = "done", !.ret = "nil"]
                  ELSE IF LastAttempt(boot.i, boot.attempts)
                         THEN [b EXCEPT !.pc = "done", !.ret = err]
                         ELSE [b EXCEPT !.pc = "sleep"]
  /\ RetryFrame

\* part_001 177-178: time.Sleep(delay); continue (i++)
Retry_Sleep ==
  /\ boot.pc = "sleep"
  /\ boot' = [boot EXCEPT !.log = Append(@, <<"sleep", boot.delay>>), !.i = @ + 1,
                          !.pc = "loop"]
  /\ RetryFrame

\* part_001 172, 182: the loop test fails, return nil
Retry_Exit ==
  /\ boot.pc = "loop"
  /\ ~(boot.i < boot.attempts)
  /\ boot' = [boot EXCEPT !.pc = "done", !.ret = "nil"]
  /\ RetryFrame

\* retry called with any attempts, operation failing at will
InitR ==
  /\ Serving
  /\ \E attempts \in (0 - 1)..MaxAttempts, delay \in Delays :
       boot = [pc |-> "loop", attempts |-> attempts, delay |-> delay, i |-> 0,
               log |-> <<>>, ret |-> "nil"]
NextR ==
  \/ Retry_Operation
  \/ Retry_Sleep
  \/ Retry_Exit
\* operation() returns and time.Sleep ends
SpecR == InitR /\ [][NextR]_vars /\ WF_vars(NextR)

\* GET /ads with every page and limit an int can hold, and one it cannot
Counts == {Itoa(n) : n \in 1..(MaxInt + 1)}
NextO ==
  \/ \E w \in Servers, page \in Counts, limit \in Counts :
        Handler_GetAllAds(w, Param(page), Param(limit), Unnamed, Unnamed)
  \/ \E w \in Servers : Respond(w)
SpecO == Init /\ [][NextO]_vars

\* mutant: keys never lose remaining life
Age_KeepsKeys ==
  /\ Quiet
  /\ UNCHANGED vars
\* a minute passes, measured from the keys: the remaining life of every key
\* shrinks by one minute and Redis drops the keys that have none left
Age ==
  /\ Quiet
  /\ cache' = [k \in Keys |-> IF cache[k].exp - 1 > now
                                THEN [cache[k] EXCEPT !.exp = @ - 1] ELSE NoEntry]
  /\ lastSet' = [i \in Ids |-> IF cache'[CacheKey(i)] = NoEntry THEN 0 ELSE lastSet[i]]
  /\ UNCHANGED <<store, nextId, now, pc, req, res, ops, hist, ackUpd, ackDel, created, ctx, boot>>

\* the steps that carry a started request of w to its response
Proceed(w) ==
  \/ GetAdByID_Repo(w)
  \/ GetAdByID_CacheSet(w)
  \/ UpdateAd_CacheDelete(w)
  \/ DeleteAd_CacheDelete(w)
  \/ Respond(w)

\* the runs of SpecT over a clock that never stops: every call of a started
\* request returns, and minutes keep passing
NextL ==
  \/ \E w \in Workers, id \in Assigned : GetAdByID_CacheGet(w, id)
  \/ \E w \in Workers, id \in Assigned, ad \in ValidAds : UpdateAd_Repo(w, id, ad)
  \/ \E w \in Workers, id \in Assigned : DeleteAd_Repo(w, id)
  \/ \E w \in Workers : Proceed(w)
  \/ Age
SpecL ==
  /\ InitT /\ [][NextL]_vars
  /\ WF_vars(Age)
  /\ \A w \in Workers : WF_vars(Proceed(w))

\* something other than this service damages the value of a live key: the text
\* is cut short (it no longer parses) or emptied; the expiry stays
Garble(key) ==
  /\ cache[key] # NoEntry
  /\ Len(cache[key].val) = Len(JSONKeys)
  /\ Quiet
  /\ \E n \in 0..(Len(JSONKeys) - 1) :
       cache' = [cache EXCEPT ![key].val = SubSeq(@, 1, n)]
  /\ lastSet' = [i \in Ids |-> IF CacheKey(i) = key THEN 0 ELSE lastSet[i]]
  /\ UNCHANGED <<store, nextId, now, pc, req, res, ops, hist, ackUpd, ackDel, created, ctx, boot>>

\* the requests of the Service served one after the other, calls failing at
\* will, over a cache whose values may be damaged
NextG ==
  \/ \E w \in Servers, id \in Ids : GetAdByID_CacheGet(w, id)
  \/ \E w \in Servers : GetAdByID_Repo(w)
  \/ \E w \in Servers : GetAdByID_CacheSet(w)
  \/ \E w \in Servers, id \in Ids, ad \in ValidAds : UpdateAd_Repo(w, id, ad)
  \/ \E w \in Servers : UpdateAd_CacheDelete(w)
  \/ \E w \in Servers, id \in Ids : DeleteAd_Repo(w, id)
  \/ \E w \in Servers : DeleteAd_CacheDelete(w)
  \/ \E w \in Servers, ad \in ValidAds : AddAd_Insert(w, ad)
  \/ \E w \in Servers : AddAd_SelectCreatedAt(w)
  \/ \E w \in Servers : Respond(w)
  \/ \E k \in Keys : Expire(k)
  \/ \E k \in Keys : Garble(k)
SpecG == Init /\ [][NextG]_vars

\* the client goes away: c.Request.Context() of the request w serves, or is
\* about to serve, is cancelled
Cancel(w) ==
  /\ ctx[w] = "live"
  /\ Quiet
  /\ ctx' = [ctx EXCEPT ![w] = "cancelled"]
  /\ UNCHANGED <<store, nextId, cache, now, pc, req, res, ops, hist, ackUpd, ackDel,
                 created, lastSet, boot>>

\* mutant: the invalidation runs on context.Background()
CallContext_DetachedDelete(call) == IF call = "cache.del" THEN "background" ELSE "request"
\* the context a call is given: every call site passes the ctx the span of
\* the operation was started from, a child of the request's context
CallContext(call) == "request"
\* database/sql and go-redis return ctx.Err() from a call that is started on a
\* cancelled context, without sending anything
CtxRule(w) ==
  ctx[w] = "cancelled" /\ res[w].calls # <<>>
         /\ CallContext(LastCall(res[w]).call) = "request"
    => LastCall(res[w]).out = "err"

\* the requests of the Service served one after the other, calls failing at
\* will, the context of a request cancelled at any moment
NextX ==
  \/ \E w \in Servers, id \in Ids : GetAdByID_CacheGet(w, id) /\ CtxRule(w)'
  \/ \E w \in Servers : GetAdByID_Repo(w) /\ CtxRule(w)'
  \/ \E w \in Servers : GetAdByID_CacheSet(w) /\ CtxRule(w)'
  \/ \E w \in Servers, id \in Ids, ad \in ValidAds : UpdateAd_Repo(w, id, ad) /\ CtxRule(w)'
  \/ \E w \in Servers : UpdateAd_CacheDelete(w) /\ CtxRule(w)'
  \/ \E w \in Servers, id \in Ids : DeleteAd_Repo(w, id) /\ CtxRule(w)'
  \/ \E w \in Servers : DeleteAd_CacheDelete(w) /\ CtxRule(w)'
  \/ \E w \in Servers, ad \in ValidAds : AddAd_Insert(w, ad) /\ CtxRule(w)'
  \/ \E w \in Servers : AddAd_SelectCreatedAt(w) /\ CtxRule(w)'
  \/ \E w \in Servers, q \in ListQueries :
        GetAllAds(w, q[1], q[2], q[3], q[4]) /\ CtxRule(w)'
  \/ \E w \in Servers : Respond(w)
  \/ \E w \in Servers : Cancel(w)
  \/ \E k \in Keys : Expire(k)
SpecX == Init /\ [][NextX]_vars

\* no Store or Cache call of a request in progress has failed
Healthy ==
  \A w \in Workers : \A i \in 1..Len(res[w].calls) : res[w].calls[i].out # "err"

\* the requests of the Service served one after the other while the Store and
\* the cache answer every call
NextS ==
  \/ \E w \in Servers, id \in Ids : GetAdByID_CacheGet(w, id) /\ Healthy'
  \/ \E w \in Servers : GetAdByID_Repo(w) /\ Healthy'
  \/ \E w \in Servers : GetAdByID_CacheSet(w) /\ Healthy'
  \/ \E w \in Servers, id \in Ids, ad \in ValidAds : UpdateAd_Repo(w, id, ad) /\ Healthy'
  \/ \E w \in Servers : UpdateAd_CacheDelete(w) /\ Healthy'
  \/ \E w \in Servers, id \in Ids : DeleteAd_Repo(w, id) /\ Healthy'
  \/ \E w \in Servers : DeleteAd_CacheDelete(w) /\ Healthy'
  \/ \E w \in Servers, ad \in ValidAds : AddAd_Insert(w, ad) /\ Healthy'
  \/ \E w \in Servers : AddAd_SelectCreatedAt(w) /\ Healthy'
  \/ \E w \in Servers, q \in ListQueries : GetAllAds(w, q[1], q[2], q[3], q[4]) /\ Healthy'
  \/ \E w \in Servers : Respond(w)
  \/ \E k \in Keys : Expire(k)
SpecS == Init /\ [][NextS]_vars

TypeOK ==
  /\ nextId \in 1..(MaxId + 1)
  /\ now \in 1..MaxTime
  /\ ops \in 0..MaxOps
  /\ \A i \in Ids : store[i] = NoRow \/ store[i].ID = i

\* ================================================================= claims
Done(w, op) == res[w].done /\ req[w].op = op
HasCall(w, name, out) ==
  \E i \in 1..Len(res[w].calls) : res[w].calls[i] = Call(name, out)
\* the Store calls of the request all succeeded (a missing row is no failure)
StoreHealthy(w) ==
  \A i \in 1..Len(res[w].calls) : res[w].calls[i].out # "err" \/
     res[w].calls[i].call \in {"cache.get", "cache.set", "cache.del"}
SameContent(a, b) ==
  a.Title = b.Title /\ a.Description = b.Description /\ a.Price = b.Price

\* the Ad a Get returned is no older than the Update acknowledged before the Get
\* began, and carries that Update's values when nothing was committed after it
PostUpdate(w) ==
  /\ res[w].ver >= req[w].floorUpd.ver
  /\ res[w].ver = req[w].floorUpd.ver => SameContent(res[w].ad, req[w].floorUpd.ad)

ListOmitsDeleted(w) ==
  \A i \in 1..Len(res[w].ads) : res[w].ads[i].ID \notin req[w].floorDel

C2_WitnessList ==
  \E w \in Workers :
    Done(w, "List") /\ res[w].err = "nil" /\ req[w].floorDel # {} /\ res[w].ads # <<>>

\* id had no row from the moment the Get began until now
NoRowDuring(w) == store[req[w].id] = NoRow /\ req[w].ver0 = Ver(req[w].id)

C4_CacheFailureNeverFailsRead ==
  \A w \in Workers :
    /\ Done(w, "Get") /\ HasCall(w, "store.select", "ok")
         => /\ res[w].err = "nil"
            /\ res[w].ver \in 1..Ver(req[w].id)
            /\ res[w].ad = hist[req[w].id][res[w].ver].row
    /\ Done(w, "Get") /\ HasCall(w, "cache.get", "err")
         => Len(res[w].calls) >= 2 /\ res[w].calls[2].call = "store.select"

C4_Witness ==
  \E w \in Workers :
    /\ Done(w, "Get") /\ HasCall(w, "cache.get", "err") /\ HasCall(w, "cache.set", "err")
    /\ res[w].err = "nil" /\ res[w].ad = store[req[w].id]

SameAd(a, b) ==
  /\ a.ID = b.ID /\ a.Title = b.Title /\ a.Description = b.Description
  /\ a.Price = b.Price /\ a.IsActive = b.IsActive

\* C7: a Get(id) of the id a Create returned, with no Update or Delete of id
\* committed and the Store healthy, returns an Ad with the id, title,
\* description, price and isActive that Create returned and a non-zero createdAt.
C7_CreateThenGet ==
  \A w \in Workers :
    Done(w, "Get") /\ created[req[w].id] # ZeroAd /\ req[w].ver0 = 1
      /\ Ver(req[w].id) = 1 /\ StoreHealthy(w)
      => /\ res[w].err = "nil"
         /\ SameAd(res[w].ad, created[req[w].id])
         /\ res[w].ad.CreatedAt # 0

C7_Witness ==
  \E w \in Workers :
    /\ Done(w, "Get") /\ req[w].id = 2 /\ created[2] # ZeroAd /\ Ver(2) = 1
    /\ res[w].err = "nil" /\ res[w].ad.IsActive

StoreCall(op) == IF op = "Update" THEN "store.update" ELSE "store.delete"

\* C8: an Update or Delete calls the Store first; it reaches the cache delete
\* only with the Store mutation committed, and when the Store call failed or
\* found no row it returns that error with no cache call made.
C8_StoreBeforeCache ==
  \A w \in Workers :
    req[w].op \in {"Update", "Delete"}
      => LET c == res[w].calls
             id == req[w].id
         IN /\ Len(c) \in 1..2 /\ c[1].call = StoreCall(req[w].op)
            /\ pc[w] \in {"UpdDel", "DelDel"} \/ Len(c) = 2
                 => /\ c[1].out = "ok"
                    /\ res[w].ver \in 1..Ver(id)
                    /\ hist[id][res[w].ver].row =
                         IF req[w].op = "Delete" THEN NoRow
                         ELSE UpdateAdRow(hist[id][res[w].ver - 1].row, req[w].ad)
            /\ Len(c) = 2 => c[2].call = "cache.del"
            /\ c[1].out # "ok" => res[w].done /\ Len(c) = 1 /\ res[w].err # "nil"

C8_Witness ==
  \E w \in Workers :
    /\ Done(w, "Update") /\ res[w].calls[1].out = "err"
    /\ cache[CacheKey(req[w].id)] # NoEntry

\* C9: when the Store write of an Update or Delete succeeded and the cache
\* delete failed, the operation returns success and the Store keeps the change.
C9_FailedInvalidationKeepsCommit ==
  \A w \in Workers :
    (Done(w, "Update") \/ Done(w, "Delete")) /\ HasCall(w, "cache.del", "err")
      => LET id == req[w].id
         IN /\ res[w].err = "nil"
            /\ res[w].ver \in 1..Ver(id)
            /\ IF req[w].op = "Delete"
                 THEN hist[id][res[w].ver].row = NoRow
                 ELSE SameContent(hist[id][res[w].ver].row, req[w].ad)
            /\ res[w].ver = Ver(id) => store[id] = hist[id][res[w].ver].row

C9_Witness ==
  \E w \in Workers :
    /\ Done(w, "Update") /\ HasCall(w, "cache.del", "err") /\ res[w].err = "nil"
    /\ SameContent(store[req[w].id], req[w].ad)
    /\ cache[CacheKey(req[w].id)] # NoEntry

\* C10 as claimed: an Update whose Store call did not fail returns NotFound
\* exactly when id has no row; an Update of an existing row succeeds, also when
\* the submitted values equal the stored ones.
C10_UpdateNotFoundIffNoRow ==
  \A w \in Workers :
    Done(w, "Update") /\ StoreHealthy(w)
      => (res[w].err = "ErrAdNotFound" <=> ~res[w].matched)

\* C5 as claimed: a Get(id) begun more than TTL after an Update or Delete of id
\* was committed never returns the row as it was before that mutation, whatever
\* the interleaving and the failed invalidations.
C5_StalenessBoundedByTTL ==
  \A w \in Workers :
    Done(w, "Get") /\ res[w].err = "nil" => res[w].ver >= req[w].floorTTL

\* worker w starts a Delete in this step, and its DELETE statement did not fail
DeleteStarts(w) ==
  req[w].op = "none" /\ req'[w].op = "Delete" /\ res'[w].calls[1].out # "err"

\* C11: a Delete(id) of an id without a row returns NotFound at once, with Store
\* and cache as they were and no cache call made; a Delete(id) of an id with a
\* row removes the row and no other; and a Delete(id) that follows a Delete(id)
\* which returned success finds no row and returns NotFound.
C11_DeleteMissingNotFound ==
  [][\A w \in Workers :
       DeleteStarts(w)
         => LET id == req'[w].id
            IN /\ store[id] = NoRow
                    => /\ store' = store /\ cache' = cache
                       /\ res'[w].done /\ res'[w].err = "ErrAdNotFound"
                       /\ Len(res'[w].calls) = 1
               /\ store[id] # NoRow
                    => /\ store' = [store EXCEPT ![id] = NoRow]
                       /\ ~res'[w].done /\ cache' = cache
               /\ id \in ackDel => store[id] = NoRow]_vars

C11_Witness ==
  \E w \in Workers :
    /\ Done(w, "Delete") /\ req[w].id \in ackDel /\ res[w].err = "ErrAdNotFound"
    /\ cache[CacheKey(req[w].id)] # NoEntry


\* worker w starts an Update in this step, and its UPDATE statement did not fail
UpdateStarts(w) ==
  req[w].op = "none" /\ req'[w].op = "Update" /\ res'[w].calls[1].out # "err"

\* C12: an Update of an existing row leaves the row with the title, description
\* and price of the request, and with isActive true when the request carries
\* true and as stored before when it carries false; no step turns the isActive
\* of a row that stays in the table from true to false.
C12_UpdateKeepsIsActiveUnlessTrue ==
  [][/\ \A w \in Workers :
          UpdateStarts(w) /\ store[req'[w].id] # NoRow
            => LET ad == req'[w].ad
                   old == store[req'[w].id]
                   new == store'[req'[w].id]
               IN /\ new.Title = ad.Title /\ new.Description = ad.Description
                  /\ new.Price = ad.Price
                  /\ new.IsActive = IF ad.IsActive THEN TRUE ELSE old.IsActive
     /\ \A id \in Ids :
          store[id] # NoRow /\ store[id].IsActive /\ store'[id] # NoRow
            => store'[id].IsActive]_vars

C12_Witness ==
  \E w \in Workers :
    /\ Done(w, "Update") /\ res[w].err = "nil" /\ ~req[w].ad.IsActive
    /\ store[req[w].id].IsActive /\ SameContent(store[req[w].id], req[w].ad)


\* worker w starts a Get in this step: the cache lookup
GetStarts(w) == req[w].op = "none" /\ req'[w].op = "Get"

\* C13: a Get(id) whose cache lookup returns a value that deserializes returns
\* that Ad at once, the lookup being its only call; and a Get(id) begun while
\* ad_<id> is as a finished Get left it (within the TTL of that Set, no Update
\* or Delete of id having acted since), the lookup not failing, returns what
\* that Get returned, the lookup being its only call.
C13_CacheHitSkipsStore ==
  [][\A w \in Workers :
       GetStarts(w)
         => LET id == req'[w].id
                u == Unmarshal(cache[CacheKey(id)].val)
                r == res'[w]
            IN /\ r.calls[1].out = "hit" /\ ~u.err
                    => /\ r.done /\ r.err = "nil" /\ r.ad = u.ad
                       /\ r.calls = <<Call("cache.get", "hit")>>
                       /\ store' = store
               /\ lastSet[id] # 0 /\ r.calls[1].out # "err"
                    => /\ r.done /\ r.err = "nil"
                       /\ r.ad = hist[id][lastSet[id]].row
                       /\ r.calls = <<Call("cache.get", "hit")>>]_vars

\* a Get answered from the entry a Get of an earlier minute left
C13_Witness ==
  \E w \in Workers :
    /\ Done(w, "Get") /\ res[w].src = "cache" /\ lastSet[req[w].id] = res[w].ver
    /\ cache[CacheKey(req[w].id)].exp < now + TTL
    /\ res[w].ad = store[req[w].id]


\* C14: when the Store read of a Get finds no row or fails, the Get returns that
\* failure in the same step, having made no call after the read, and Store and
\* cache are as they were: nothing is written under ad_<id>.
C14_FailedReadNotCached ==
  [][\A w \in Workers :
       pc[w] = "GetRepo" /\ pc'[w] # "GetRepo" /\ res'[w].calls[2].out # "ok"
         => /\ res'[w].done /\ Len(res'[w].calls) = 2
            /\ res'[w].err = IF res'[w].calls[2].out = "norows"
                               THEN "sql.ErrNoRows" ELSE "error"
            /\ cache' = cache /\ store' = store]_vars

C14_Witness ==
  \E w \in Workers :
    /\ Done(w, "Get") /\ res[w].err = "sql.ErrNoRows" /\ HasCall(w, "cache.get", "miss")
    /\ Ver(req[w].id) > 0 /\ cache[CacheKey(req[w].id)] = NoEntry


\* C15: every step of a Create or a List leaves the cache as it was, and the
\* calls of a Create or a List are Store calls only, whether it succeeds or fails.
C15_CreateAndListLeaveCache ==
  [][\A w \in Workers :
       res'[w] # res[w] /\ req'[w].op \in {"Create", "List"}
         => /\ cache' = cache
            /\ \A i \in 1..Len(res'[w].calls) :
                 res'[w].calls[i].call \in {"store.insert", "store.select", "store.query"}]_vars

C15_Witness ==
  \E w \in Workers :
    /\ Done(w, "Create") /\ res[w].err = "nil" /\ Len(res[w].calls) = 2
    /\ cache[CacheKey(1)] # NoEntry /\ cache[CacheKey(res[w].id)] = NoEntry


\* the text is no positive integer: not digits after an optional plus sign, or
\* digits that are all zero
NotPositiveInteger(s) ==
  LET t == IF s # <<>> /\ s[1] = "+" THEN Tail(s) ELSE s
  IN ~(/\ t # <<>>
       /\ \A i \in 1..Len(t) : t[i] \in Digits
       /\ \E i \in 1..Len(t) : t[i] # "0")
\* the body is no JSON, or lacks a non-empty title, a non-empty description or
\* a positive price
BodyInvalid(body) ==
  LET m == body.members
      Has(k) == \E i \in 1..Len(m) : m[i][1] = k
      Val(k) == m[CHOOSE i \in 1..Len(m) : m[i][1] = k][2]
  IN \/ body.malformed
     \/ ~Has("title") \/ ~Has("description") \/ ~Has("price")
     \/ Val("title") = "" \/ Val("description") = "" \/ Val("price") <= 0
QueryInvalid(q) ==
  \/ q[1].present /\ NotPositiveInteger(q[1].val)
  \/ q[2].present /\ NotPositiveInteger(q[2].val)
  \/ q[3].present /\ q[3].val \notin {"id", "title", "price", "created_at", "is_active"}
  \/ q[4].present /\ q[4].val \notin {"asc", "desc"}
\* worker w serves in this step a request that must not pass validation
InvalidRequest(w) ==
  /\ req[w].op = "none" /\ req'[w].op # "none"
  /\ \/ \E idParam \in IdParams :
          /\ NotPositiveInteger(idParam)
          /\ \/ Handler_GetAdByID(w, idParam)
             \/ Handler_DeleteAd(w, idParam)
             \/ \E body \in Bodies : Handler_UpdateAd(w, idParam, body)
     \/ \E body \in Bodies :
          /\ BodyInvalid(body)
          /\ \/ Handler_AddAd(w, body)
             \/ \E idParam \in IdParams : Handler_UpdateAd(w, idParam, body)
     \/ \E q \in Queries :
          QueryInvalid(q) /\ Handler_GetAllAds(w, q[1], q[2], q[3], q[4])

\* C16: a request with a non-numeric or non-positive id, a body that is no JSON
\* or has an empty title, an empty description or a non-positive price, a
\* non-positive page or limit, or a sort_by or order outside the allowed values
\* is answered 400 in the step that receives it, no Service call is made, and
\* Store and cache are as they were.
C16_InvalidRequestRejected ==
  [][\A w \in Workers :
       InvalidRequest(w)
         => /\ res'[w].done /\ res'[w].calls = <<>> /\ StatusCode(w)' = 400
            /\ store' = store /\ nextId' = nextId /\ cache' = cache]_vars

C16_Witness ==
  \E w \in Workers :
    /\ res[w].done /\ req[w].bad /\ req[w].op = "Update" /\ StatusCode(w) = 400
    /\ store[1] # NoRow /\ cache[CacheKey(1)] # NoEntry

\* the Service call of w failed with NotFound: its Store call found no row
ServiceNotFound(w) ==
  /\ req[w].op \in {"Get", "Update", "Delete"}
  /\ res[w].calls[Len(res[w].calls)].out = "norows"

\* C17: the response to a request that reached the Service has status 200 (201
\* for Create) when the Service returned no error, 404 when a Get, Update or
\* Delete failed with NotFound, and 500 for every other Service error.
C17_StatusMapping ==
  \A w \in Workers :
    res[w].done /\ ~req[w].bad
      => /\ res[w].err = "nil"
              => StatusCode(w) = IF req[w].op = "Create" THEN 201 ELSE 200
         /\ ServiceNotFound(w) => res[w].err # "nil" /\ StatusCode(w) = 404
         /\ res[w].err # "nil" /\ ~ServiceNotFound(w) => StatusCode(w) = 500

C17_Witness ==
  \E w \in Workers :
    /\ Done(w, "Get") /\ StatusCode(w) = 404 /\ HasCall(w, "cache.get", "err")
    /\ Ver(req[w].id) > 0


\* row a comes strictly before row b in the requested order
Precedes(a, b, sortBy, order) ==
  IF order = "asc" THEN SortKey(a, sortBy) < SortKey(b, sortBy)
                   ELSE SortKey(a, sortBy) > SortKey(b, sortBy)

\* C18: a List that succeeds returns at most limit records: as many as the
\* table has from position (page-1)*limit on, up to limit; they are distinct
\* rows of the table in the requested order, and the record at place i of the
\* answer can stand at position (page-1)*limit + i of the ordered table: fewer
\* rows than that come strictly before it, and at least that many do not come
\* after it.
C18_ListPageOfOrderedRows ==
  \A w \in Workers :
    Done(w, "List") /\ res[w].err = "nil"
      => LET ads == res[w].ads
             sortBy == req[w].sortBy
             order == req[w].order
             first == (req[w].page - 1) * req[w].limit
             rest == Cardinality(Rows) - first
             Before(r) == Cardinality({x \in Rows : Precedes(x, r, sortBy, order)})
             NotAfter(r) == Cardinality({x \in Rows : ~Precedes(r, x, sortBy, order)})
         IN /\ Len(ads) <= req[w].limit
            /\ Len(ads) = IF rest <= 0 THEN 0
                           ELSE IF rest < req[w].limit THEN rest ELSE req[w].limit
            /\ \A i \in 1..Len(ads) : ads[i] \in Rows
            /\ \A i, j \in 1..Len(ads) : i < j => /\ ads[i] # ads[j]
                                                   /\ ~Precedes(ads[j], ads[i], sortBy, order)
            /\ \A i \in 1..Len(ads) : /\ Before(ads[i]) < first + i
                                       /\ NotAfter(ads[i]) >= first + i

C18_Witness ==
  \E w \in Workers :
    /\ Done(w, "List") /\ res[w].err = "nil" /\ req[w].page = 2
    /\ Len(res[w].ads) = 1 /\ Cardinality(Rows) = 2


\* C19: every row ever committed for id carries id as its ID and the createdAt
\* of the row the Create inserted, which is the createdAt the Create returned,
\* whatever id and created_at the bodies of the Updates carried.
C19_IdAndCreatedAtImmutable ==
  \A id \in Ids :
    /\ \A v \in 1..Ver(id) :
         LET row == hist[id][v].row
         IN row # NoRow
              => /\ row.ID = id
                 /\ row.CreatedAt = hist[id][1].row.CreatedAt
                 /\ created[id] # ZeroAd
                      => created[id].ID = id /\ row.CreatedAt = created[id].CreatedAt
    /\ Ver(id) > 0 => store[id] = hist[id][Ver(id)].row

C19_Witness ==
  \E w \in Workers :
    /\ Done(w, "Update") /\ res[w].err = "nil"
    /\ req[w].ad.ID \notin {0, req[w].id}
    /\ req[w].ad.CreatedAt \notin {0, store[req[w].id].CreatedAt}
    /\ SameContent(store[req[w].id], req[w].ad)


\* C20: the INSERT of a Create takes an id under which no row was ever
\* committed, which no Create has returned and no Create in progress holds; the
\* Create returns that id, and the counter of ids never goes back.
C20_IdsUniqueNeverReused ==
  [][/\ nextId' >= nextId
     /\ \A w \in Workers :
          /\ req[w].op = "none" /\ req'[w].op = "Create" /\ store' # store
               => LET id == res'[w].id
                  IN /\ id \in Ids /\ Ver(id) = 0 /\ created[id] = ZeroAd
                     /\ store'[id].ID = id
                     /\ \A v \in Workers \ {w} :
                          req[v].op = "Create" => res[v].id # id
          /\ pc[w] = "AddSelect" /\ res'[w].done /\ res'[w].err = "nil"
               => /\ res'[w].ad.ID = res[w].id
                  /\ created[res'[w].ad.ID] = ZeroAd
                  /\ \A v \in Workers \ {w} :
                       req[v].op = "Create" => res[v].id # res'[w].ad.ID]_vars

\* a Create has returned id 2 after the Ad with id 1 was deleted
C20_Witness ==
  \E w \in Workers :
    /\ Done(w, "Create") /\ res[w].err = "nil" /\ res[w].ad.ID = 2
    /\ Ver(1) > 1 /\ store[1] = NoRow

\* an Ad with every field of a stored row set
Populated(ad) ==
  ad.ID > 0 /\ ad.Title # "" /\ ad.Description # "" /\ ad.Price > 0 /\ ad.CreatedAt # 0

\* C21: an operation that returns an error returns no Ad and no list; the Ad a
\* successful Create or Get returns (from the cache or from the Store) and every
\* Ad of a returned list has a positive id, a non-empty title and description,
\* a positive price and a non-zero createdAt.
C21_ReturnedAdsPopulated ==
  \A w \in Workers :
    res[w].done /\ ~req[w].bad
      => /\ res[w].err # "nil" => res[w].ad = ZeroAd /\ res[w].ads = <<>>
         /\ res[w].err = "nil" /\ req[w].op \in {"Create", "Get"} => Populated(res[w].ad)
         /\ \A i \in 1..Len(res[w].ads) : Populated(res[w].ads[i])

\* a Get answered from the cache returns the Ad an Update has written
C21_Witness ==
  \E w \in Workers :
    /\ Done(w, "Get") /\ res[w].err = "nil" /\ res[w].src = "cache"
    /\ Populated(res[w].ad) /\ res[w].ver > 1

\* C22: the body of a 500 response is the same whatever error the Store
\* reported: replacing the error the Service returned by any other error that
\* is answered with 500 leaves the body of the response unchanged.
C22_ServerErrorBodyFixed ==
  \A w \in Workers :
    res[w].done /\ StatusCode(w) = 500
      => \A e \in StoreErrors :
           HandlerStatus(req[w].op, e) = 500
             => ErrorBody(req[w].op, e) = ErrorBody(req[w].op, res[w].err)

\* a Create is answered with 500 after its INSERT went through and the read of
\* created_at failed
C22_Witness ==
  \E w \in Workers :
    /\ Done(w, "Create") /\ StatusCode(w) = 500
    /\ HasCall(w, "store.insert", "ok") /\ HasCall(w, "store.select", "err")

\* the newest commit of id is an Update or a Delete that has returned success
AfterUpdate(id) == Ver(id) > 0 /\ ackUpd[id].ver = Ver(id) /\ id \notin ackDel
AfterDelete(id) == id \in ackDel

\* C23: in a sequential run with healthy Store and cache, a Get(id) that starts
\* when the newest commit of id is a successful Update or Delete and no Get has
\* populated ad_<id> since finds no entry and goes to the Store; a Get started
\* after the Update returns the Update's values and leaves them under ad_<id>,
\* a Get started after the Delete returns sql.ErrNoRows and leaves no entry.
C23_FirstGetAfterMutation ==
  [][\A w \in Servers :
       /\ GetStarts(w) /\ lastSet[req'[w].id] = 0
            /\ (AfterUpdate(req'[w].id) \/ AfterDelete(req'[w].id))
            => /\ cache[CacheKey(req'[w].id)] = NoEntry
               /\ res'[w].calls = <<Call("cache.get", "miss")>>
               /\ pc'[w] = "GetRepo"
       /\ req'[w].op = "Get" /\ ~res[w].done /\ res'[w].done
            => LET id == req'[w].id
                   e == cache'[CacheKey(id)]
               IN /\ req'[w].floorUpd.ver = req'[w].ver0 /\ req'[w].ver0 > 0
                       /\ id \notin req'[w].floorDel
                       => /\ res'[w].err = "nil"
                          /\ res'[w].ad = store[id]
                          /\ SameContent(res'[w].ad, req'[w].floorUpd.ad)
                          /\ e # NoEntry /\ Unmarshal(e.val).ad = res'[w].ad
                  /\ id \in req'[w].floorDel
                       => res'[w].err = "sql.ErrNoRows" /\ e = NoEntry]_vars

\* the first Get after an Update has read the Store and left the Update's values
\* under the key
C23_Witness ==
  \E w \in Servers :
    /\ Done(w, "Get") /\ res[w].src = "store" /\ res[w].err = "nil"
    /\ req[w].ver0 > 1 /\ req[w].floorUpd.ver = req[w].ver0
    /\ SameContent(res[w].ad, req[w].floorUpd.ad)
    /\ cache[CacheKey(req[w].id)].ver = req[w].ver0

\* C24: a key receives a value only from the Set of a Get that was not served
\* from the cache and read the row from the Store: the key is ad_<id> of the
\* requested id, the value is that row, the expiry is now + TTL; the lookup of
\* a Get leaves every entry as it is, and an entry a Get is served from was
\* written less than TTL ago.
C24_EntriesWrittenByGetMissWithTTL ==
  [][/\ \A k \in Keys :
          cache' # cache /\ cache'[k] # cache[k] /\ cache'[k] # NoEntry
            => \E w \in Workers :
                 /\ pc[w] = "GetSet" /\ req[w].op = "Get" /\ res'[w].done
                 /\ k = CacheKey(req[w].id)
                 /\ res[w].src = "store" /\ HasCall(w, "store.select", "ok")
                 /\ cache'[k].val = Marshal(res[w].ad)
                 /\ cache'[k].exp = now + TTL
     /\ \A w \in Workers :
          GetStarts(w)
            => /\ cache' = cache
               /\ res'[w].src = "cache"
                    => LET written == cache[CacheKey(req'[w].id)].exp - TTL
                       IN written <= now /\ now - written < TTL]_vars

\* a Get is served from an entry in the last minute before its expiry
C24_Witness ==
  \E w \in Workers :
    /\ Done(w, "Get") /\ res[w].src = "cache"
    /\ cache[CacheKey(req[w].id)].exp = now + 1
    /\ now = TTL

\* a live key whose value is empty or does not parse
BadEntry(key) ==
  /\ cache[key] # NoEntry /\ cache[key].exp > now
  /\ cache[key].val = <<>> \/ ~WellFormed(cache[key].val)

\* C25: a Get(id) that finds an empty or unparsable value under ad_<id> is not
\* answered from the cache: it goes on to the Store and returns what the Store
\* returns (the row, sql.ErrNoRows, or the Store's error), and when the Store
\* returned the row, a Set that goes through replaces the bad value by the row.
C25_BadEntryIsMiss ==
  [][\A w \in Servers :
       /\ GetStarts(w) /\ BadEntry(CacheKey(req'[w].id))
            => /\ pc'[w] = "GetRepo" /\ ~res'[w].done /\ res'[w].src = "none"
               /\ cache' = cache
       /\ pc[w] = "GetRepo" /\ res'[w] # res[w] /\ BadEntry(CacheKey(req[w].id))
            => LET id == req[w].id
                   out == LastCall(res'[w]).out
               IN /\ LastCall(res'[w]).call = "store.select"
                  /\ out = "err" => res'[w].done /\ res'[w].err = "error"
                  /\ out = "norows" => /\ res'[w].done /\ res'[w].err = "sql.ErrNoRows"
                                       /\ store[id] = NoRow
                  /\ out = "ok" => /\ pc'[w] = "GetSet" /\ res'[w].ad = store[id]
                                   /\ store[id] # NoRow
                  /\ cache' = cache
       /\ pc[w] = "GetSet" /\ res'[w] # res[w] /\ BadEntry(CacheKey(req[w].id))
            => LET key == CacheKey(req[w].id)
               IN /\ res'[w].done /\ res'[w].err = "nil" /\ res'[w].ad = res[w].ad
                  /\ LastCall(res'[w]) = Call("cache.set", "ok")
                       => /\ cache'[key].val = Marshal(res[w].ad)
                          /\ ~Unmarshal(cache'[key].val).err
                          /\ Unmarshal(cache'[key].val).ad = res[w].ad
                  /\ LastCall(res'[w]) = Call("cache.set", "err")
                       => cache' = cache]_vars

\* a Get found a value that does not parse, read the Store and wrote the row
\* over the value
C25_Witness ==
  \E w \in Servers :
    /\ Done(w, "Get") /\ res[w].err = "nil" /\ res[w].src = "store"
    /\ res[w].calls = <<Call("cache.get", "hit"), Call("store.select", "ok"),
                        Call("cache.set", "ok")>>
    /\ Unmarshal(cache[CacheKey(req[w].id)].val).ad = res[w].ad

\* no key holds anything but the row the Store holds now
Converged ==
  \A id \in Ids :
    LET e == cache[CacheKey(id)]
    IN e # NoEntry => store[id] # NoRow /\ Unmarshal(e.val).ad = store[id]
\* a finished Get whose Store calls succeeded carries the Store's current state
GetsCurrent ==
  \A w \in Workers :
    Done(w, "Get") /\ StoreHealthy(w)
      => IF store[req[w].id] = NoRow
           THEN res[w].err = "sql.ErrNoRows"
           ELSE res[w].err = "nil" /\ res[w].ad = store[req[w].id]

\* C26: when every started request finishes and minutes keep passing, from
\* some moment on no key holds a stale value and every Get whose Store calls
\* succeed returns the Store's current row, or sql.ErrNoRows when there is none.
C26_EventuallyConverged == <>[](Converged /\ GetsCurrent)

\* no request is in progress and a stale value is in its last minute
C26_Witness ==
  /\ \A w \in Workers : pc[w] = "idle" /\ ~res[w].done
  /\ \E id \in Ids :
       LET e == cache[CacheKey(id)]
       IN e # NoEntry /\ e.ver < Ver(id) /\ e.exp = now + 1

\* C27: every Store or Cache call a request makes once its context is cancelled
\* fails and changes neither the table nor any key.
C27_CancelledCallsHaveNoEffect ==
  [][\A w \in Servers :
       ctx[w] = "cancelled" /\ res'[w] # res[w] /\ res'[w].calls # <<>>
         => /\ LastCall(res'[w]).out = "err"
            /\ store' = store /\ nextId' = nextId /\ cache' = cache]_vars

\* an Update was cancelled after its UPDATE was committed: the invalidation it
\* went on to start failed
C27_Witness ==
  \E w \in Servers :
    /\ Done(w, "Update") /\ ctx[w] = "cancelled"
    /\ res[w].calls = <<Call("store.update", "ok"), Call("cache.del", "err")>>

\* C28: when a Create has returned an error, the table holds no row the Create
\* inserted (the row under the id its INSERT was given, if the INSERT went
\* through, is not there).
C28_FailedCreateLeavesStore ==
  \A w \in Workers :
    Done(w, "Create") /\ res[w].err # "nil" /\ res[w].id \in Ids
      => store[res[w].id] = NoRow

\* C29: the value under ad_<id> always decodes to an Ad whose ID is id and which
\* is one of the rows committed for id so far.
C29_CachedValueIsPastRow ==
  \A id \in Ids :
    LET e == cache[<<"ad_", id>>]
        u == Unmarshal(e.val)
    IN e # NoEntry
         => /\ ~u.err /\ u.ad.ID = id /\ u.ad # NoRow
            /\ \E v \in 1..Ver(id) : hist[id][v].row = u.ad

\* the key holds a row of id that an Update has replaced since
C29_Witness ==
  \E id \in Ids :
    LET e == cache[<<"ad_", id>>]
    IN /\ e # NoEntry /\ store[id] # NoRow
       /\ Unmarshal(e.val).ad # store[id]
       /\ Unmarshal(e.val).ad = hist[id][1].row

\* C30: a step of a Get, an Update or a Delete of id, succeeding or failing,
\* leaves the rows and the keys of every other id as they are.
C30_OnlyOwnIdAffected ==
  [][\A w \in Workers :
       res'[w] # res[w] /\ req'[w].op \in {"Get", "Update", "Delete"}
         => \A j \in Ids \ {req'[w].id} :
              /\ store'[j] = store[j]
              /\ cache'[<<"ad_", j>>] = cache[<<"ad_", j>>]]_vars

\* an Update of id 1 has gone through while id 2 has a row and a key
C30_Witness ==
  \E w \in Workers :
    /\ Done(w, "Update") /\ res[w].err = "nil" /\ req[w].id = 1
    /\ store[2] # NoRow /\ cache[<<"ad_", 2>>] # NoEntry

\* C31: for every page and limit the handler accepts, the offset the List
\* computes is non-negative and equals the product (page - 1) * limit.
C31_OffsetIsProduct ==
  \A w \in Workers :
    Done(w, "List") /\ ~req[w].bad
      => /\ Offset(req[w].page, req[w].limit) >= 0
         /\ Offset(req[w].page, req[w].limit) = (req[w].page - 1) * req[w].limit

\* the outcomes of the calls of operation so far, in order
RECURSIVE OpsOf(_)
OpsOf(log) ==
  IF log = <<>> THEN <<>>
  ELSE LET rest == OpsOf(SubSeq(log, 1, Len(log) - 1))
       IN IF log[Len(log)][1] = "op" THEN Append(rest, log[Len(log)][2]) ELSE rest

\* what retry has done so far, and what it returned once it is done
RetrySafe ==
  LET log == boot.log
      outs == OpsOf(log)
      n == Len(outs)
      sleeps == Len(log) - n
      done == boot.pc = "done"
  IN /\ boot.attempts <= 0 => log = <<>> /\ (done => boot.ret = "nil")
     /\ boot.attempts >= 1 => n <= boot.attempts
     /\ \A k \in 1..(n - 1) : outs[k] # "nil"
     /\ \A k \in 1..Len(log) :
          log[k][1] = "sleep"
            => /\ log[k][2] = boot.delay
               /\ k > 1 /\ log[k - 1][1] = "op" /\ log[k - 1][2] # "nil"
               /\ done => k < Len(log) /\ log[k + 1][1] = "op"
     /\ done /\ boot.attempts >= 1
          => /\ n >= 1 /\ boot.ret = outs[n] /\ sleeps = n - 1
             /\ boot.ret # "nil" => n = boot.attempts

\* C32: retry makes at most attempts calls of operation, makes none after a
\* success, sleeps only after a failed call that another call follows, returns
\* nil after a success and the last call's error when all attempts calls failed,
\* returns nil without a call when attempts <= 0, and always returns.
C32_RetryBoundedAndTerminates == []RetrySafe /\ <>(boot.pc = "done")

\* all attempts failed: the error of the last call is returned, not the first
C32_Witness ==
  /\ boot.pc = "done" /\ boot.attempts = MaxAttempts
  /\ Len(OpsOf(boot.log)) = boot.attempts
  /\ boot.log[1] = <<"op", "e1">> /\ boot.ret = "e2"


====
